---- MODULE Spec2Model ----
(***************************************************************************)
(* Model of lasif.components.events.EventsComponent: a folder of event     *)
(* files presented as a keyed, memoized collection of metadata records.    *)
(*                                                                         *)
(* Python objects that can be aliased (the record dictionaries) live in a  *)
(* heap, `objects`, and are referred to by location, so that returning a   *)
(* reference and returning a copy are different things in the model.       *)
(***************************************************************************)
EXTENDS Integers, Sequences, FiniteSets, TLC

VARIABLES
    disk,              \* the file system: path -> file content, existing files only
    all_events,        \* self.all_events: event name -> path
    event_info_cache,  \* self.__event_info_cache: event name -> location of the record
    objects,           \* heap of record dictionaries: location -> field -> value
    parse_calls,       \* instrumentation: invocations of the extraction function per name
    parse_failed,      \* instrumentation: names whose extraction has raised
    first_rec,         \* instrumentation: the record the first successful get(name) returned
    result,            \* outcome of the last call, as seen by the caller
    fs,                \* the project's file tree: path below the root -> entry
    components,        \* the communicator's registry: component name -> instance
    project,           \* "none", or "loaded" once a constructor has returned a Project
    project_function_cache,  \* self.__project_function_cache: function type -> function
    presult,           \* outcome of the last call on the project or the communicator
    reference_stations,  \* the second EventsComponent of a project: its map, cache and records
    threads            \* callers inside get(): thread -> the line it is at and its locals

\* The variables of the events component and those of the project.
events_vars == <<disk, all_events, event_info_cache, objects, parse_calls,
                 parse_failed, first_rec, result>>

project_vars == <<fs, components, project, project_function_cache, presult>>

\* The second events component and the callers inside get().
extra_vars == <<reference_stations, threads>>

vars == <<disk, all_events, event_info_cache, objects, parse_calls,
          parse_failed, first_rec, result,
          fs, components, project, project_function_cache, presult,
          reference_stations, threads>>

----------------------------------------------------------------------------
\* Bounds of the model.

\* Cap on the invocations of the extraction function per event name.
MaxParse == 2

----------------------------------------------------------------------------
\* Names, paths and the folder.

\* The event names the files of the folder may carry, in ascending lexical
\* order (the order sorted() yields).
EventNames == <<"A", "B">>

Stems == {EventNames[i] : i \in 1..Len(EventNames)}

\* A name no file in the folder ever carries.
MissingName == "missing"

\* Position of a name in the lexical order; lower case sorts after upper case.
Rank(n) ==
    IF n = MissingName THEN Len(EventNames) + 1
    ELSE CHOOSE i \in 1..Len(EventNames) : EventNames[i] = n

\* sorted(names)
RECURSIVE Sorted(_)
Sorted(S) ==
    IF S = {} THEN <<>>
    ELSE LET m == CHOOSE x \in S : \A y \in S : Rank(x) <= Rank(y)
         IN  <<m>> \o Sorted(S \ {m})

\* self.folder
folder == "DATA/EARTHQUAKES"

\* os.path.join(dir, base)
Join(dir, base) == [dir |-> dir, stem |-> base.stem, ext |-> base.ext]

\* os.path.basename(path)
Basename(path) == [stem |-> path.stem, ext |-> path.ext]

\* os.path.splitext(base)
Splitext(base) == <<base.stem, base.ext>>

\* os.path.splitext(os.path.basename(file))[0]
EventNameOf(path) == Splitext(Basename(path))[1]

\* glob.glob(os.path.join(dir, '*.' + ext)), as a set: the order is the
\* file system's and is chosen where the result is iterated.
Glob(d, dir, ext) == {p \in DOMAIN d : p.dir = dir /\ p.ext = ext}

\* The event files the environment may create, change and remove.
H5Paths == {Join(folder, [stem |-> s, ext |-> "h5"]) : s \in Stems}

\* A file of the folder that the pattern '*.h5' does not match.
OtherPath == Join(folder, [stem |-> EventNames[1], ext |-> "xml"])

----------------------------------------------------------------------------
\* Finite maps (Python dictionaries).

EmptyMap == [x \in {} |-> x]

Put(f, k, v) == [x \in DOMAIN f \cup {k} |-> IF x = k THEN v ELSE f[x]]

Restrict(f, S) == [x \in DOMAIN f \cap S |-> f[x]]

\* All orders in which the elements of S can be iterated.
Orders(S) ==
    {s \in [1..Cardinality(S) -> S] : \A i, j \in 1..Cardinality(S) : s[i] = s[j] => i = j}

----------------------------------------------------------------------------
\* File contents. An optional attribute is <<>> (None) or <<v>>.

None == <<>>

EventIceland ==
    [latitude |-> 64, longitude |-> -17, depth |-> <<12000>>, time |-> 1412677354,
     m_rr |-> -297, m_pp |-> 123, m_tt |-> 174, m_rp |-> -77, m_rt |-> 38, m_tp |-> -2,
     mag |-> 55, magnitude_type |-> <<"Mwc">>]

EventTurkey ==
    [latitude |-> 38, longitude |-> 40, depth |-> None, time |-> 1269439871,
     m_rr |-> 54, m_pp |-> -50, m_tt |-> -4, m_rp |-> 11, m_rt |-> 20, m_tp |-> 30,
     mag |-> 51, magnitude_type |-> None]

\* A data set without an event, and two data sets with one event each.
Contents == {[events |-> <<>>], [events |-> <<EventIceland>>], [events |-> <<EventTurkey>>]}

----------------------------------------------------------------------------
\* The extraction function and the record built from its values.

\* self.index_values
index_values ==
    <<"filename", "event_name", "latitude", "longitude", "depth_in_km", "origin_time",
      "m_rr", "m_pp", "m_tt", "m_rp", "m_rt", "m_tp", "magnitude", "magnitude_type",
      "region">>

\* FlinnEngdahl().get_region(longitude, latitude)
GetRegion(longitude, latitude) == IF latitude >= 60 THEN "ICELAND" ELSE "TURKEY"

\* obspy.UTCDateTime(timestamp)
UTCDateTime(timestamp) == <<"UTCDateTime", timestamp>>

\* EventsComponent._extract_index_values_quakeml(filename), reading d, the disk.
\* Opening a file that does not exist raises, and so does ds.events[0] on a
\* data set without events; a missing depth or magnitude type is defaulted
\* with a warning.
ExtractIndexValuesQuakeml(d, filename) ==
    IF filename \notin DOMAIN d THEN [ok |-> FALSE, error |-> "OSError"]
    ELSE IF Len(d[filename].events) = 0 THEN [ok |-> FALSE, error |-> "IndexError"]
    ELSE LET event == d[filename].events[1]
             depth == IF event.depth = None THEN 0 ELSE event.depth[1]
             magnitude_type ==
                 IF event.magnitude_type = None THEN "Mw" ELSE event.magnitude_type[1]
             event_name == Splitext(Basename(filename))[1]
         IN  [ok |-> TRUE,
              error |-> "",
              warnings |-> (IF event.depth = None THEN 1 ELSE 0)
                           + (IF event.magnitude_type = None THEN 1 ELSE 0),
              values |-> <<filename, event_name, event.latitude, event.longitude,
                           depth \div 1000, event.time,
                           event.m_rr, event.m_pp, event.m_tt,
                           event.m_rp, event.m_rt, event.m_tp,
                           event.mag, magnitude_type,
                           GetRegion(event.longitude, event.latitude)>>]

\* dict(zip(names, values)): positional matching, the last of equal names wins.
Zip(names, values) ==
    LET n == IF Len(names) <= Len(values) THEN Len(names) ELSE Len(values)
    IN  [f \in {names[i] : i \in 1..n} |->
            values[CHOOSE i \in 1..n : names[i] = f /\ \A j \in 1..n : names[j] = f => j <= i]]

\* BuildValues as it would be if the values were matched to the names from
\* the second name on.
BuildValues_Shifted(values) ==
    LET zipped == Zip(Tail(index_values), values)
    IN  [zipped EXCEPT !["origin_time"] = UTCDateTime(@)]

\* The dictionary get() builds from the extracted values.
BuildValues(values) ==
    LET zipped == Zip(index_values, values)
    IN  [zipped EXCEPT !["origin_time"] = UTCDateTime(@)]

----------------------------------------------------------------------------
\* Heap locations. The record get() stores for a name is created once; the
\* records copy.deepcopy() creates belong to the copy handed to the caller.

CacheLoc(name) == <<"cache", name>>

CopyLoc(name) == <<"copy", name>>

\* The heap once the caller has dropped what an earlier call returned: what
\* the cache refers to.
Live(cache, objs) == Restrict(objs, {cache[k] : k \in DOMAIN cache})

\* The records of the cache, by value.
CacheView == [k \in DOMAIN event_info_cache |-> objects[event_info_cache[k]]]

----------------------------------------------------------------------------
\* One call on the component, computed on a record m of the fields it reads
\* and writes: cache, objs (the heap), the instrumentation (calls, failed,
\* first), and the call's outcome (status, ret, parsed: the names the
\* extraction function was invoked for during the call).

Begin ==
    [cache  |-> event_info_cache,
     objs   |-> Live(event_info_cache, objects),
     calls  |-> parse_calls,
     failed |-> parse_failed,
     first  |-> first_rec,
     status |-> "ok",
     ret    |-> <<>>,
     parsed |-> {}]

\* The argument of get() and has_event(): a name (x.kind = "key") or a
\* dictionary (x.kind = "record", x.rec its fields, x.src where it lives).
KeyArg(name) == [kind |-> "key", key |-> name, rec |-> EmptyMap, src |-> <<>>]

RecordArg(rec, src) == [kind |-> "record", key |-> "", rec |-> rec, src |-> src]

\* ResolveEventName as it would be without the try block: a dictionary
\* stays a dictionary.
ResolveEventName_KeysOnly(x) ==
    IF x.kind = "key" THEN [hashable |-> TRUE, name |-> x.key]
    ELSE [hashable |-> FALSE, name |-> ""]

\* try: event_name = event_name["event_name"]
\* except (KeyError, TypeError): pass
\* A string stays as it is (TypeError); a dictionary with the field is replaced
\* by the field; a dictionary without it stays a dictionary (KeyError), which
\* is not hashable, so the membership test that follows raises TypeError.
ResolveEventName(x) ==
    IF x.kind = "key" THEN [hashable |-> TRUE, name |-> x.key]
    ELSE IF "event_name" \in DOMAIN x.rec
         THEN [hashable |-> TRUE, name |-> x.rec["event_name"]]
         ELSE [hashable |-> FALSE, name |-> ""]

\* IsKnown as it would be if the membership test looked at the parsed records.
IsKnown_Parsed(events, name) == name \in DOMAIN event_info_cache

\* event_name in self.all_events
IsKnown(events, name) == name \in DOMAIN events

\* NotKnownOutcome as it would be without the membership test: the lookup
\* self.all_events[event_name] raises KeyError.
NotKnownOutcome_KeyError(m, name) == [m EXCEPT !.status = "KeyError"]

\* raise LASIFNotFoundError("Event '%s' not known to LASIF.")
NotKnownOutcome(m, name) == [m EXCEPT !.status = "LASIFNotFoundError"]

\* IsCached as it would be if a cached record counted only while the file
\* still yields it (a cache that follows the file's content).
IsCached_Fresh(m, name) ==
    /\ name \in DOMAIN m.cache
    /\ LET x == ExtractIndexValuesQuakeml(disk, all_events[name])
       IN  x.ok /\ BuildValues(x.values) = m.objs[m.cache[name]]

\* IsCached as it would be without the cache test: every get() parses.
IsCached_Never(m, name) == FALSE

\* event_name in self.__event_info_cache
IsCached(m, name) == name \in DOMAIN m.cache

\* ExtractionFailed as it would be if get() put an empty record into the
\* cache before it calls the extraction function.
ExtractionFailed_CachesPartial(m, name, error) ==
    [m EXCEPT !.status = error,
              !.calls[name] = @ + 1,
              !.failed = @ \cup {name},
              !.parsed = @ \cup {name},
              !.cache = Put(@, name, CacheLoc(name)),
              !.objs = Put(@, CacheLoc(name), EmptyMap)]

\* The extraction function raised: the exception leaves get() before the
\* assignment to the cache.
ExtractionFailed(m, name, error) ==
    [m EXCEPT !.status = error,
              !.calls[name] = @ + 1,
              !.failed = @ \cup {name},
              !.parsed = @ \cup {name}]

\* self.__event_info_cache[event_name] = values
StoreRecord(m, name, values) ==
    [m EXCEPT !.cache = Put(@, name, CacheLoc(name)),
              !.objs = Put(@, CacheLoc(name), values)]

\* The body of `if event_name not in self.__event_info_cache:`
ParseAndStore(m, events, d, name) ==
    LET x == ExtractIndexValuesQuakeml(d, events[name])
    IN  IF ~x.ok THEN ExtractionFailed(m, name, x.error)
        ELSE StoreRecord([m EXCEPT !.calls[name] = @ + 1, !.parsed = @ \cup {name}],
                         name, BuildValues(x.values))

\* return self.__event_info_cache[event_name]
ReturnCached(m, name) ==
    IF name \notin DOMAIN m.cache THEN [m EXCEPT !.status = "KeyError"]
    ELSE [m EXCEPT !.ret = m.cache[name],
                   !.first = IF name \in DOMAIN @ THEN @
                             ELSE Put(@, name, m.objs[m.cache[name]])]

\* EventsComponent.get(event_name) for a resolved name.
GetOn(m, events, d, name) ==
    IF ~IsKnown(events, name) THEN NotKnownOutcome(m, name)
    ELSE LET m1 == IF IsCached(m, name) THEN m ELSE ParseAndStore(m, events, d, name)
         IN  IF m1.status # "ok" THEN m1 ELSE ReturnCached(m1, name)

\* EventsComponent.update_cache(): get() for every file the pattern matches,
\* in the order the listing gives them; an exception ends the loop.
RECURSIVE UpdateCacheFrom(_, _, _, _, _)
UpdateCacheFrom(m, events, d, files, i) ==
    IF i > Len(files) \/ m.status # "ok" THEN m
    ELSE UpdateCacheFrom(GetOn(m, events, d, EventNameOf(files[i])), events, d, files, i + 1)

\* DeepCopy as copy.copy() would do it: a new dictionary of the same records.
DeepCopy_Shallow(cache, objs) == [dict |-> "copy", items |-> cache, objs |-> objs]

\* copy.deepcopy(self.__event_info_cache): a new dictionary of new records.
DeepCopy(cache, objs) ==
    [dict  |-> "copy",
     items |-> [k \in DOMAIN cache |-> CopyLoc(k)],
     objs  |-> [l \in DOMAIN objs \cup {CopyLoc(k) : k \in DOMAIN cache} |->
                   IF l \in DOMAIN objs THEN objs[l]
                   ELSE objs[cache[CHOOSE k \in DOMAIN cache : CopyLoc(k) = l]]]]

\* FillFrom as it would be if a scan built the map anew from the files it
\* finds, forgetting the names whose files are gone.
FillFrom_Anew(events, files) ==
    [n \in {EventNameOf(f) : f \in files} |-> CHOOSE f \in files : EventNameOf(f) = n]

\* The loop of fill_all_events(): self.all_events[event_name] = file
FillFrom(events, files) ==
    [n \in DOMAIN events \cup {EventNameOf(f) : f \in files} |->
        IF \E f \in files : EventNameOf(f) = n
        THEN CHOOSE f \in files : EventNameOf(f) = n
        ELSE events[n]]

----------------------------------------------------------------------------
\* The state after construction and the calls.

\* What the caller sees of a call.
Outcome(op, kind, arg, src, status, value, parsed) ==
    [op |-> op, kind |-> kind, arg |-> arg, src |-> src,
     status |-> status, value |-> value, parsed |-> parsed]

\* Writes m back to the component.
Commit(m) ==
    /\ event_info_cache' = m.cache
    /\ objects' = m.objs
    /\ parse_calls' = m.calls
    /\ parse_failed' = m.failed
    /\ first_rec' = m.first

\* The instrumentation stays within its bound.
Within(m) == \A k \in Stems : m.calls[k] <= MaxParse

\* A dictionary with an event_name no file carries, and one without the field.
ForeignRecord == [f \in {"event_name"} |-> MissingName]

NamelessRecord == [f \in {"latitude"} |-> 0]

\* Before any call on a project.
NoOutcome ==
    [op |-> "none", arg |-> [type |-> "str", text |-> ""], status |-> "ok",
     value |-> <<>>, made |-> <<>>, wrote |-> {}, warned |-> 0,
     loaded |-> {}, bound |-> <<>>, again |-> FALSE]

\* The threads that may call get() at the same time.
Threads == {"t1", "t2"}

\* A thread that is not inside get().
Idle == [pc |-> "idle", name |-> "", values |-> <<>>, ret |-> <<>>, status |-> "ok"]

\* What the caller sees of a call on the second events component.
SiblingOutcome(op, arg, status, value) ==
    [op |-> op, arg |-> arg, status |-> status, value |-> value]

\* A second events component right after `self.__event_info_cache = {}` and
\* `self.all_events = {}`.
NewSibling ==
    [all_events |-> EmptyMap, cache |-> EmptyMap, objs |-> EmptyMap,
     last |-> SiblingOutcome("init", "", "ok", <<>>)]

\* No second events component, and nobody inside get().
NoExtras ==
    /\ reference_stations = NewSibling
    /\ threads = [t \in Threads |-> Idle]

\* No project has been loaded.
NoProject ==
    /\ fs = EmptyMap
    /\ components = {}
    /\ project = "none"
    /\ project_function_cache = EmptyMap
    /\ presult = NoOutcome

\* EventsComponent.__init__: empty cache, empty map, then fill_all_events()
\* on whatever the folder holds.
Init ==
    /\ NoProject
    /\ NoExtras
    /\ \E S \in SUBSET H5Paths : \E h \in [S -> Contents] :
          disk = Put(h, OtherPath, [events |-> <<>>])
    /\ all_events = FillFrom(EmptyMap, Glob(disk, folder, "h5"))
    /\ event_info_cache = EmptyMap
    /\ objects = EmptyMap
    /\ parse_calls = [k \in Stems |-> 0]
    /\ parse_failed = {}
    /\ first_rec = EmptyMap
    /\ result = Outcome("init", "", "", <<>>, "ok", <<>>, {})

\* The environment creates or rewrites an event file.
WriteFile(p, c) ==
    /\ IF p \in DOMAIN disk THEN disk[p] # c ELSE TRUE
    /\ disk' = Put(disk, p, c)
    /\ objects' = Live(event_info_cache, objects)
    /\ result' = Outcome("write_file", "", EventNameOf(p), <<>>, "ok", <<>>, {})
    /\ UNCHANGED project_vars
    /\ UNCHANGED extra_vars
    /\ UNCHANGED <<all_events, event_info_cache, parse_calls, parse_failed, first_rec>>

\* The environment removes an event file.
RemoveFile(p) ==
    /\ p \in DOMAIN disk
    /\ disk' = Restrict(disk, DOMAIN disk \ {p})
    /\ objects' = Live(event_info_cache, objects)
    /\ result' = Outcome("remove_file", "", EventNameOf(p), <<>>, "ok", <<>>, {})
    /\ UNCHANGED project_vars
    /\ UNCHANGED extra_vars
    /\ UNCHANGED <<all_events, event_info_cache, parse_calls, parse_failed, first_rec>>

\* FillAllEvents as it would be if a rescan also emptied the record cache.
FillAllEvents_Invalidating ==
    /\ all_events' = FillFrom(all_events, Glob(disk, folder, "h5"))
    /\ event_info_cache' = EmptyMap
    /\ objects' = EmptyMap
    /\ result' = Outcome("fill_all_events", "", "", <<>>, "ok",
                         DOMAIN all_events' \ DOMAIN all_events, {})
    /\ UNCHANGED project_vars
    /\ UNCHANGED extra_vars
    /\ UNCHANGED <<disk, parse_calls, parse_failed, first_rec>>

\* FillAllEvents as it would be if a scan also parsed every file it finds.
FillAllEvents_Parsing ==
    \E files \in Orders(Glob(disk, folder, "h5")) :
        LET events == FillFrom(all_events, Glob(disk, folder, "h5"))
            m == UpdateCacheFrom(Begin, events, disk, files, 1)
        IN  /\ Within(m)
            /\ all_events' = events
            /\ Commit(m)
            /\ result' = Outcome("fill_all_events", "", "", <<>>, "ok",
                                 DOMAIN events \ DOMAIN all_events, m.parsed)
            /\ UNCHANGED project_vars
            /\ UNCHANGED extra_vars
            /\ UNCHANGED disk

\* EventsComponent.fill_all_events(). It returns nothing; the outcome's value
\* is instrumentation: the names this call added to the map.
FillAllEvents ==
    /\ all_events' = FillFrom(all_events, Glob(disk, folder, "h5"))
    /\ objects' = Live(event_info_cache, objects)
    /\ result' = Outcome("fill_all_events", "", "", <<>>, "ok",
                         DOMAIN all_events' \ DOMAIN all_events, {})
    /\ UNCHANGED project_vars
    /\ UNCHANGED extra_vars
    /\ UNCHANGED <<disk, event_info_cache, parse_calls, parse_failed, first_rec>>

\* CountValue as it would be if count() counted the parsed records.
CountValue_Parsed(events, cache) == Cardinality(DOMAIN cache)

\* len(self.all_events)
CountValue(events, cache) == Cardinality(DOMAIN events)

\* EventsComponent.count()
Count ==
    /\ objects' = Live(event_info_cache, objects)
    /\ result' = Outcome("count", "", "", <<>>, "ok",
                         CountValue(all_events, event_info_cache), {})
    /\ UNCHANGED project_vars
    /\ UNCHANGED extra_vars
    /\ UNCHANGED <<disk, all_events, event_info_cache, parse_calls, parse_failed, first_rec>>

\* EventsComponent.has_event(event_name)
HasEventCall(x) ==
    LET r == ResolveEventName(x)
    IN  /\ objects' = Live(event_info_cache, objects)
        /\ result' = IF r.hashable
                     THEN Outcome("has_event", x.kind, r.name, x.src, "ok",
                                  IsKnown(all_events, r.name), {})
                     ELSE Outcome("has_event", x.kind, r.name, x.src, "TypeError", <<>>, {})
        /\ UNCHANGED project_vars
        /\ UNCHANGED extra_vars
        /\ UNCHANGED <<disk, all_events, event_info_cache, parse_calls, parse_failed,
                       first_rec>>

\* EventsComponent.get(event_name)
GetCall(x) ==
    LET r == ResolveEventName(x)
        m == IF r.hashable THEN GetOn(Begin, all_events, disk, r.name)
             ELSE [Begin EXCEPT !.status = "TypeError"]
    IN  /\ Within(m)
        /\ Commit(m)
        /\ result' = Outcome("get", x.kind, r.name, x.src, m.status,
                             IF m.status = "ok" THEN m.ret ELSE <<>>, m.parsed)
        /\ UNCHANGED project_vars
        /\ UNCHANGED extra_vars
        /\ UNCHANGED <<disk, all_events>>

\* The arguments the caller passes: a name, a record it holds (one of the
\* cache, which get() returned, or one of the copy get_all_events() returned),
\* or a dictionary of its own.
HasEvent ==
    \/ \E k \in Stems \cup {MissingName} : HasEventCall(KeyArg(k))
    \/ \E l \in DOMAIN objects : HasEventCall(RecordArg(objects[l], l))
    \/ HasEventCall(RecordArg(ForeignRecord, <<"foreign">>))
    \/ HasEventCall(RecordArg(NamelessRecord, <<"nameless">>))

Get ==
    \/ \E k \in Stems \cup {MissingName} : GetCall(KeyArg(k))
    \/ \E l \in DOMAIN objects : GetCall(RecordArg(objects[l], l))
    \/ GetCall(RecordArg(ForeignRecord, <<"foreign">>))
    \/ GetCall(RecordArg(NamelessRecord, <<"nameless">>))

\* EventsComponent.list()
List ==
    \E files \in Orders(Glob(disk, folder, "h5")) :
        LET m == UpdateCacheFrom(Begin, all_events, disk, files, 1)
        IN  /\ Within(m)
            /\ Commit(m)
            /\ result' = Outcome("list", "", "", <<>>, m.status,
                                 IF m.status = "ok" THEN Sorted(DOMAIN m.cache) ELSE <<>>,
                                 m.parsed)
            /\ UNCHANGED project_vars
            /\ UNCHANGED extra_vars
            /\ UNCHANGED <<disk, all_events>>

\* EventsComponent.get_all_events()
GetAllEvents ==
    \E files \in Orders(Glob(disk, folder, "h5")) :
        LET m == UpdateCacheFrom(Begin, all_events, disk, files, 1)
            c == DeepCopy(m.cache, m.objs)
        IN  /\ Within(m)
            /\ Commit(IF m.status = "ok" THEN [m EXCEPT !.objs = c.objs] ELSE m)
            /\ result' = Outcome("get_all_events", "", "", <<>>, m.status,
                                 IF m.status = "ok"
                                 THEN [dict |-> c.dict, items |-> c.items]
                                 ELSE <<>>,
                                 m.parsed)
            /\ UNCHANGED project_vars
            /\ UNCHANGED extra_vars
            /\ UNCHANGED <<disk, all_events>>

\* The caller holds the mapping get_all_events() returned.
HoldsMapping == result.op \in {"get_all_events", "mutate"} /\ result.status = "ok"

\* The entries of that mapping: its own, or the cache's if it is the cache.
ReturnedItems ==
    IF result.value.dict = "cache" THEN event_info_cache ELSE result.value.items

\* The caller changes a field of a record of the returned mapping.
MutateReturnedRecord(k) ==
    /\ HoldsMapping
    /\ k \in DOMAIN ReturnedItems
    /\ objects[ReturnedItems[k]]["latitude"] # 0
    /\ objects' = [objects EXCEPT ![ReturnedItems[k]]["latitude"] = 0]
    /\ result' = [result EXCEPT !.op = "mutate"]
    /\ UNCHANGED project_vars
    /\ UNCHANGED extra_vars
    /\ UNCHANGED <<disk, all_events, event_info_cache, parse_calls, parse_failed,
                   first_rec>>

\* The caller removes an entry of the returned mapping.
MutateReturnedMapping(k) ==
    /\ HoldsMapping
    /\ k \in DOMAIN ReturnedItems
    /\ LET items == Restrict(ReturnedItems, DOMAIN ReturnedItems \ {k})
       IN  IF result.value.dict = "cache"
           THEN /\ event_info_cache' = items
                /\ objects' = Live(items, objects)
                /\ result' = [result EXCEPT !.op = "mutate"]
           ELSE /\ event_info_cache' = event_info_cache
                /\ objects' = Restrict(objects,
                                       {event_info_cache[n] : n \in DOMAIN event_info_cache}
                                       \cup {items[n] : n \in DOMAIN items})
                /\ result' = [result EXCEPT !.op = "mutate", !.value.items = items]
    /\ UNCHANGED project_vars
    /\ UNCHANGED extra_vars
    /\ UNCHANGED <<disk, all_events, parse_calls, parse_failed, first_rec>>

Next ==
    \/ \E p \in H5Paths : \E c \in Contents : WriteFile(p, c)
    \/ \E p \in H5Paths : RemoveFile(p)
    \/ FillAllEvents
    \/ Count
    \/ HasEvent
    \/ Get
    \/ List
    \/ GetAllEvents
    \/ \E k \in Stems : MutateReturnedRecord(k)
    \/ \E k \in Stems : MutateReturnedMapping(k)

Spec == Init /\ [][Next]_vars

----------------------------------------------------------------------------
\* The project: names, the declared paths and the file tree.

\* A name as the words its underscores separate. Python's `a in b` on two
\* strings is modelled on the words: a's words occur in b's, in a row.
Words(s) ==
    CASE s = "config_file" -> <<"config", "file">>
      [] s = "adjoint_sources" -> <<"adjoint", "sources">>
      [] s = "salvus_input" -> <<"salvus", "input">>
      [] s = "window_picking_function" -> <<"window", "picking", "function">>
      [] s = "processing_function" -> <<"processing", "function">>
      [] s = "preprocessing_function_asdf" -> <<"preprocessing", "function", "asdf">>
      [] s = "process_synthetics" -> <<"process", "synthetics">>
      [] s = "source_time_function" -> <<"source", "time", "function">>
      [] s = "unknown_function" -> <<"unknown", "function">>
      [] OTHER -> <<s>>

IsInfix(a, b) ==
    \E i \in 0..(Len(b) - Len(a)) : \A j \in 1..Len(a) : b[i + j] = a[j]

\* needle in hay, for two strings
StrIn(needle, hay) == IsInfix(Words(needle), Words(hay))

\* An entry of self.paths: a path, or a dictionary of entries. A path is the
\* sequence of names below the project root; <<>> is the root itself.
Leaf(name, path) == [name |-> name, isdict |-> FALSE, path |-> path, items |-> <<>>]

Dict(name, items) == [name |-> name, isdict |-> TRUE, path |-> <<>>, items |-> items]

\* Project.__setup_paths: self.paths, in the order of insertion.
paths ==
    <<Leaf("root", <<>>),
      Dict("data", <<Leaf("correlations", <<"DATA", "CORRELATIONS">>),
                     Leaf("earthquakes", <<"DATA", "EARTHQUAKES">>)>>),
      Dict("synthetics", <<Leaf("correlations", <<"SYNTHETICS", "CORRELATIONS">>),
                           Leaf("earthquakes", <<"SYNTHETICS", "EARTHQUAKES">>)>>),
      Dict("preprocessed", <<Leaf("correlations", <<"PROCESSED_DATA", "CORRELATIONS">>),
                             Leaf("earthquakes", <<"PROCESSED_DATA", "EARTHQUAKES">>)>>),
      Leaf("sets", <<"SETS">>),
      Leaf("windows", <<"SETS", "WINDOWS">>),
      Leaf("weights", <<"SETS", "WEIGHTS">>),
      Leaf("adjoint_sources", <<"ADJOINT_SOURCES">>),
      Leaf("output", <<"OUTPUT">>),
      Leaf("logs", <<"OUTPUT", "LOGS">>),
      Leaf("salvus_input", <<"SALVUS_INPUT_FILES">>),
      Leaf("functions", <<"FUNCTIONS">>),
      Leaf("config_file", <<"lasif_config.toml">>)>>

\* The leaves of a sequence of entries, dictionaries unfolded.
RECURSIVE Leaves(_)
Leaves(items) ==
    IF items = <<>> THEN {}
    ELSE (IF Head(items).isdict THEN Leaves(Head(items).items) ELSE {Head(items)})
         \cup Leaves(Tail(items))

\* self.paths["root"], self.paths["functions"], self.paths["config_file"]
RootPath == <<>>

FunctionsPath == <<"FUNCTIONS">>

ConfigPath == <<"lasif_config.toml">>

\* Entries of the file tree: a directory, or a file with its content.
Dir == <<"dir">>

File(content) == <<"file", content>>

IsDir(tree, path) == path \in DOMAIN tree /\ tree[path] = Dir

IsFile(tree, path) == path \in DOMAIN tree /\ tree[path] # Dir

\* path.exists()
Exists(tree, path) == path \in DOMAIN tree

\* The path and the paths above it, the root included.
Prefixes(path) == {SubSeq(path, 1, n) : n \in 0..Len(path)}

\* One call on the project, computed on a record st of what it reads and
\* writes: the file tree, the registry, the function cache, and the call's
\* outcome; loaded are the files the call loaded as modules, bound the names
\* it registered, in the order of registration.
PBegin ==
    [fs |-> fs, components |-> components, cache |-> project_function_cache,
     status |-> "ok", value |-> <<>>, made |-> <<>>, wrote |-> {}, warned |-> 0,
     loaded |-> {}, bound |-> <<>>]

\* Makedirs as it would be if the call were recorded and nothing created.
Makedirs_Nothing(st, path) == [st EXCEPT !.made = Append(@, path)]

\* os.makedirs(path): creates the missing directories above path and path
\* itself; raises if path exists or if a path above it is a file.
Makedirs(st, path) ==
    IF \E q \in Prefixes(path) \ {path} : IsFile(st.fs, q)
    THEN [st EXCEPT !.status = "NotADirectoryError"]
    ELSE IF Exists(st.fs, path) THEN [st EXCEPT !.status = "FileExistsError"]
    ELSE [st EXCEPT !.fs = [q \in DOMAIN st.fs \cup Prefixes(path) |->
                                IF q \in DOMAIN st.fs THEN st.fs[q] ELSE Dir],
                    !.made = Append(@, path)]

\* __update_folder_structure_recursion(paths), from the i-th entry on.
RECURSIVE UpdateFolderStructureRecursion(_, _, _)
UpdateFolderStructureRecursion(st, items, i) ==
    IF i > Len(items) \/ st.status # "ok" THEN st
    ELSE IF items[i].isdict
         THEN UpdateFolderStructureRecursion(
                  UpdateFolderStructureRecursion(st, items[i].items, 1), items, i + 1)
    ELSE IF StrIn("file", items[i].name) \/ Exists(st.fs, items[i].path)
         THEN UpdateFolderStructureRecursion(st, items, i + 1)
    ELSE UpdateFolderStructureRecursion(Makedirs(st, items[i].path), items, i + 1)

\* Project.__update_folder_structure()
UpdateFolderStructureOn(st) == UpdateFolderStructureRecursion(st, paths, 1)

\* The call has not raised.
Ok(st) == st.status = "ok"

Raise(st, error) == [st EXCEPT !.status = error]

\* An argument: a Python bool or str, with its text as str() gives it.
Arg(type, text) == [type |-> type, text |-> text]

\* bool(x) of an argument
Truthy(x) == IF x.type = "bool" THEN x.text = "True" ELSE x.text # ""

\* f"{x}" of an argument
Str(x) == x.text

\* What a file holds. A configuration file: its project name and the tables
\* it has. A Python file: the names it defines as functions (parts) and the
\* names it binds to other values (vars).
Toml(name, sections) == [kind |-> "toml", name |-> name, parts |-> sections, vars |-> {}]

Py(name, defs, others) == [kind |-> "py", name |-> name, parts |-> defs, vars |-> others]

Text(name) == [kind |-> "text", name |-> name, parts |-> {}, vars |-> {}]

\* The tables of the configuration file that __init_new_project writes.
DefaultSections ==
    {"lasif_project", "data_processing", "solver_settings",
     "solver_settings.simulation_parameters", "solver_settings.computational_setup"}

\* The tables _read_config_file reads, in the order it reads them.
RequiredSections ==
    <<"lasif_project", "solver_settings", "solver_settings.simulation_parameters",
      "solver_settings.computational_setup", "data_processing">>

\* open(path, "w") and write: creates the file or replaces its content.
WriteTo(st, path, content) ==
    IF IsDir(st.fs, path) THEN Raise(st, "IsADirectoryError")
    ELSE IF \E q \in Prefixes(path) \ {path} : ~IsDir(st.fs, q)
         THEN Raise(st, IF \E q \in Prefixes(path) \ {path} : IsFile(st.fs, q)
                        THEN "NotADirectoryError" ELSE "FileNotFoundError")
    ELSE [st EXCEPT !.fs = Put(st.fs, path, File(content)),
                    !.wrote = @ \cup {path}]

\* Project.__init_new_project(project_name)
InitNewProject(st, project_name) ==
    LET name == IF ~Truthy(project_name) THEN "LASIFProject" ELSE Str(project_name)
    IN  WriteTo(st, ConfigPath, Toml(name, DefaultSections))

\* Project.__init__, the branch taken when init_project is true.
InitBranch(st, init_project) ==
    IF Truthy(init_project)
    THEN LET rooted == IF ~Exists(st.fs, RootPath) THEN Makedirs(st, RootPath) ELSE st
         IN  IF rooted.status = "ok" THEN InitNewProject(rooted, init_project) ELSE rooted
    ELSE st

\* CheckConfigFile as it would be if a missing file were found only later.
CheckConfigFile_Never(st) == st

\* Project.__init__, the check for the configuration file.
CheckConfigFile(st) ==
    IF ~Exists(st.fs, ConfigPath) THEN Raise(st, "LASIFError") ELSE st

\* Project._read_config_file()
ReadConfigFile(st) ==
    IF ~IsFile(st.fs, ConfigPath) THEN Raise(st, "IsADirectoryError")
    ELSE LET config_dict == st.fs[ConfigPath][2]
         IN  IF config_dict.kind # "toml" THEN Raise(st, "TomlDecodeError")
             ELSE IF \E i \in 1..Len(RequiredSections) :
                        RequiredSections[i] \notin config_dict.parts
                  THEN Raise(st, "KeyError")
             ELSE st

----------------------------------------------------------------------------
\* The registry of components.

\* The registry is a set of bindings <<name, component>>; a component is
\* <<class, label>>, the label telling two instances of a class apart.
Bound(registry, name) == \E b \in registry : b[1] = name

Target(registry, name) == (CHOOSE b \in registry : b[1] = name)[2]

\* RegisterOn as it would be if registering a bound name replaced its target.
RegisterOn_Rebinds(st, name, component) ==
    [st EXCEPT !.components = {b \in @ : b[1] # name} \cup {<<name, component>>},
               !.bound = Append(@, name)]

\* RegisterOn as it would be if registering never looked at the name.
RegisterOn_Appends(st, name, component) ==
    [st EXCEPT !.components = @ \cup {<<name, component>>}, !.bound = Append(@, name)]

\* Communicator.register(name, component)
RegisterOn(st, name, component) ==
    IF Bound(st.components, name) THEN Raise(st, "DuplicateNameError")
    ELSE [st EXCEPT !.components = @ \cup {<<name, component>>}, !.bound = Append(@, name)]

\* Looking a component up by its name.
ResolveOn(st, name) ==
    IF ~Bound(st.components, name) THEN Raise(st, "UnknownComponentError")
    ELSE [st EXCEPT !.value = <<Target(st.components, name)>>]

\* self.__comm = Communicator()
NewCommunicator(st) == [st EXCEPT !.components = {}]

\* RegisterProject as it would be if the project did not register itself.
RegisterProject_Nothing(st) == st

\* super(Project, self).__init__(self.__comm, "project")
RegisterProject(st) == RegisterOn(st, "project", <<"Project", "project">>)

\* The components __setup_components constructs, in its order, each under
\* the name it registers itself with.
ComponentTable ==
    <<<<"events", <<"EventsComponent", "data/earthquakes">>>>,
      <<"waveforms", <<"WaveformsComponent", "data/earthquakes">>>>,
      <<"reference_stations", <<"EventsComponent", "data/correlations">>>>,
      <<"correlations", <<"WaveformsComponent", "data/correlations">>>>,
      <<"weights", <<"WeightsComponent", "weights">>>>,
      <<"iterations", <<"IterationsComponent", "">>>>,
      <<"query", <<"QueryComponent", "">>>>,
      <<"visualizations", <<"VisualizationsComponent", "">>>>,
      <<"actions", <<"ActionsComponent", "">>>>,
      <<"validator", <<"ValidatorComponent", "">>>>,
      <<"wins_and_adj_sources", <<"WindowsAndAdjointSourcesComponent", "adjoint_sources">>>>,
      <<"downloads", <<"DownloadsComponent", "">>>>>>

RECURSIVE RegisterAll(_, _, _)
RegisterAll(st, table, i) ==
    IF i > Len(table) \/ st.status # "ok" THEN st
    ELSE RegisterAll(RegisterOn(st, table[i][1], table[i][2]), table, i + 1)

\* Project.__setup_components()
SetupComponents(st) == RegisterAll(st, ComponentTable, 1)

----------------------------------------------------------------------------
\* Loading a project and its functions.

\* fct_type_map of get_project_function
FctTypes ==
    {"window_picking_function", "processing_function", "preprocessing_function_asdf",
     "process_synthetics", "source_time_function"}

fct_type_map ==
    [t \in FctTypes |->
        CASE t = "window_picking_function" -> "window_picking_function.py"
          [] t = "processing_function" -> "process_data.py"
          [] t = "preprocessing_function_asdf" -> "preprocessing_function_asdf.py"
          [] t = "process_synthetics" -> "process_synthetics.py"
          [] t = "source_time_function" -> "source_time_function.py"]

\* The files of the function_templates directory, and what each holds: the
\* function of the type that fct_type_map reads from a file of that name.
TemplateNames ==
    <<"preprocessing_function_asdf.py", "process_data.py", "process_synthetics.py",
      "source_time_function.py", "window_picking_function.py">>

TemplateContent(filename) ==
    Py("template", {t \in FctTypes : fct_type_map[t] = filename}, {})

\* WarnsOnCopy as it would be if every copy were announced.
WarnsOnCopy_Always(init_project) == TRUE

\* if not init_project: warnings.warn(...)
WarnsOnCopy(init_project) == ~Truthy(init_project)

\* TemplateExists as it would be if the copy did not look first.
TemplateExists_Never(st, new_filename) == FALSE

\* new_filename.exists()
TemplateExists(st, new_filename) == Exists(st.fs, new_filename)

\* The loop of __copy_fct_templates, from the i-th template on.
RECURSIVE CopyFctTemplatesFrom(_, _, _)
CopyFctTemplatesFrom(st, init_project, i) ==
    IF i > Len(TemplateNames) \/ st.status # "ok" THEN st
    ELSE LET new_filename == Append(FunctionsPath, TemplateNames[i])
             warned == [st EXCEPT !.warned = IF WarnsOnCopy(init_project) THEN @ + 1 ELSE @]
         IN  IF TemplateExists(st, new_filename)
             THEN CopyFctTemplatesFrom(st, init_project, i + 1)
             ELSE CopyFctTemplatesFrom(
                      WriteTo(warned, new_filename, TemplateContent(TemplateNames[i])),
                      init_project, i + 1)

\* Project.__copy_fct_templates(init_project)
CopyFctTemplates(st, init_project) == CopyFctTemplatesFrom(st, init_project, 1)

\* self.__project_function_cache = {}
NewFunctionCache(st) == [st EXCEPT !.cache = EmptyMap]

\* Project.__init__(project_root_path, init_project), on a new object: it
\* has no registry and no function cache until the call makes them.
ConstructOn(st, init_project) ==
    LET initialised == InitBranch([st EXCEPT !.components = {}, !.cache = EmptyMap],
                                  init_project)
        checked == IF Ok(initialised) THEN CheckConfigFile(initialised) ELSE initialised
        named == IF Ok(checked) THEN RegisterProject(NewCommunicator(checked)) ELSE checked
        registered == IF Ok(named) THEN SetupComponents(named) ELSE named
        laid_out == IF Ok(registered) THEN UpdateFolderStructureOn(registered) ELSE registered
        configured == IF Ok(laid_out) THEN ReadConfigFile(laid_out) ELSE laid_out
    IN  IF Ok(configured) THEN CopyFctTemplates(NewFunctionCache(configured), init_project)
        ELSE configured

\* The test of get_project_function for a type it does not know.
UnknownType(fct_type) == ~StrIn(fct_type, fct_type)

\* InFunctionCache as it would be without the cache: every call loads.
InFunctionCache_Never(st, fct_type) == FALSE

\* fct_type in self.__project_function_cache
InFunctionCache(st, fct_type) == fct_type \in DOMAIN st.cache

\* SourceFileLoader(...).load_module(...): the module the file holds.
LoadModule(st, filename) == [st EXCEPT !.loaded = @ \cup {filename}]

\* Callable as it would be if whatever carries the name were taken.
Callable_Always(fct_template, fct_type) == TRUE

\* callable(getattr(fct_template, fct_type))
Callable(fct_template, fct_type) == fct_type \in fct_template.parts

\* StoreFunction as it would be if a loaded function were also registered
\* as a component under its type.
StoreFunction_Registers(st, fct_type, fct) ==
    [st EXCEPT !.cache = Put(@, fct_type, fct), !.value = <<fct>>,
               !.components = @ \cup {<<fct_type, fct>>}]

\* self.__project_function_cache[fct_type] = fct; return fct
StoreFunction(st, fct_type, fct) ==
    [st EXCEPT !.cache = Put(@, fct_type, fct), !.value = <<fct>>]

\* Project.get_project_function(fct_type)
GetProjectFunctionOn(st, fct_type) ==
    IF InFunctionCache(st, fct_type) THEN [st EXCEPT !.value = <<st.cache[fct_type]>>]
    ELSE IF UnknownType(fct_type) THEN Raise(st, "LASIFNotFoundError")
    ELSE IF fct_type \notin DOMAIN fct_type_map THEN Raise(st, "KeyError")
    ELSE LET filename == Append(FunctionsPath, fct_type_map[fct_type])
         IN  IF ~Exists(st.fs, filename) THEN Raise(st, "LASIFNotFoundError")
             ELSE IF IsDir(st.fs, filename) THEN Raise(st, "IsADirectoryError")
             ELSE LET fct_template == st.fs[filename][2]
                      fct == <<fct_template.name, fct_type>>
                      module == LoadModule(st, filename)
                  IN  IF fct_template.kind # "py" THEN Raise(module, "SyntaxError")
                      ELSE IF fct_type \notin fct_template.parts \cup fct_template.vars
                           THEN Raise(module, "LASIFNotFoundError")
                      ELSE IF ~Callable(fct_template, fct_type) THEN Raise(module, "LASIFError")
                      ELSE StoreFunction(module, fct_type, fct)

\* What the caller sees of a call on the project or its registry: made are
\* the paths os.makedirs() was called with, wrote the files written, warned
\* the number of warnings, again whether the call before it was a run of
\* __update_folder_structure that raised nothing.
POutcome(op, arg, st) ==
    [op |-> op, arg |-> arg, status |-> st.status, value |-> st.value,
     made |-> st.made, wrote |-> st.wrote, warned |-> st.warned,
     loaded |-> st.loaded, bound |-> st.bound,
     again |-> (presult.op = "update_folder_structure" /\ presult.status = "ok")]

\* A call ends: what it did to the files, the registry and the cache stays.
PCommit(st, op, arg) ==
    /\ fs' = st.fs
    /\ components' = st.components
    /\ project_function_cache' = st.cache
    /\ presult' = POutcome(op, arg, st)
    /\ UNCHANGED events_vars
    /\ UNCHANGED extra_vars

\* Project(project_root_path, init_project=init_project)
Construct(init_project) ==
    LET st == ConstructOn(PBegin, init_project)
    IN  /\ PCommit(st, "construct", init_project)
        /\ project' = IF st.status = "ok" THEN "loaded" ELSE "none"

\* Project.__update_folder_structure(), on a loaded project.
UpdateFolderStructure ==
    /\ project = "loaded"
    /\ PCommit(UpdateFolderStructureOn(PBegin), "update_folder_structure", Arg("str", ""))
    /\ UNCHANGED project

\* Project.get_project_function(fct_type), on a loaded project.
GetProjectFunction(fct_type) ==
    /\ project = "loaded"
    /\ PCommit(GetProjectFunctionOn(PBegin, fct_type), "get_project_function",
               Arg("str", fct_type))
    /\ UNCHANGED project

\* A component registers itself with the registry of a loaded project.
Register(name, component) ==
    /\ project = "loaded"
    /\ PCommit(RegisterOn(PBegin, name, component), "register", Arg("str", name))
    /\ UNCHANGED project

\* A component looks a sibling up in the registry of a loaded project.
Resolve(name) ==
    /\ project = "loaded"
    /\ PCommit(ResolveOn(PBegin, name), "resolve", Arg("str", name))
    /\ UNCHANGED project

WindowPickingFile == Append(FunctionsPath, "window_picking_function.py")

\* The environment removes a file, or a directory with all it holds.
RemoveTree(path) ==
    /\ Exists(fs, path)
    /\ fs' = Restrict(fs, {q \in DOMAIN fs : path \notin Prefixes(q)})
    /\ presult' = POutcome("remove_tree", Arg("str", ""), PBegin)
    /\ UNCHANGED <<components, project, project_function_cache>>
    /\ UNCHANGED events_vars
    /\ UNCHANGED extra_vars

\* The environment writes the user's window_picking_function.py.
WriteFunctionFile(content) ==
    /\ IsDir(fs, FunctionsPath)
    /\ IF Exists(fs, WindowPickingFile) THEN fs[WindowPickingFile] # File(content) ELSE TRUE
    /\ fs' = Put(fs, WindowPickingFile, File(content))
    /\ presult' = POutcome("write_file", Arg("str", ""), PBegin)
    /\ UNCHANGED <<components, project, project_function_cache>>
    /\ UNCHANGED events_vars
    /\ UNCHANGED extra_vars

\* A configuration file a user has filled in, and one with a table missing.
UserConfig == Toml("UserProject", DefaultSections)

BrokenConfig == Toml("UserProject", DefaultSections \ {"data_processing"})

\* The configuration files with one table missing.
BrokenConfigs == {Toml("UserProject", DefaultSections \ {section}) : section \in DefaultSections}

\* A file window_picking_function.py of the user: with the function, without
\* the name, and with the name bound to something that is no function.
UserFunctionFiles ==
    {Py("user", {"window_picking_function"}, {}),
     Py("user", {}, {}),
     Py("user", {}, {"window_picking_function"})}

\* The map with the given <<key, value>> pairs.
MapOf(pairs) == [k \in {x[1] : x \in pairs} |-> (CHOOSE x \in pairs : x[1] = k)[2]]

\* A project root as Project.__init__ may find it: with or without a
\* configuration file, with a file where the layout wants a directory, with
\* a directory of the layout that holds a file of the user, with a functions
\* directory that holds a file of the user.
RootWith(config, squatter, kept, function) ==
    MapOf({<<RootPath, Dir>>}
          \cup {<<ConfigPath, File(config[i])>> : i \in 1..Len(config)}
          \cup {<<squatter[i], File(Text("user"))>> : i \in 1..Len(squatter)}
          \cup (IF kept THEN {<<<<"SETS">>, Dir>>, <<<<"SETS", "notes.txt">>, File(Text("user"))>>}
                ELSE {})
          \cup (IF function = <<>> THEN {}
                ELSE {<<FunctionsPath, Dir>>, <<WindowPickingFile, File(function[1])>>}))

InitialTrees ==
    {EmptyMap}
    \cup {RootWith(config, <<>>, TRUE, function) :
            config \in {<<>>, <<UserConfig>>, <<BrokenConfig>>},
            function \in {<<>>} \cup {<<f>> : f \in UserFunctionFiles}}
    \cup {RootWith(<<UserConfig>>, <<squatter>>, FALSE, <<>>) :
            squatter \in {<<"ADJOINT_SOURCES">>, <<"OUTPUT">>}}
    \cup {RootWith(<<config>>, <<>>, TRUE, <<>>) : config \in BrokenConfigs}

\* The arguments the calls are made with.
InitProjectArgs ==
    {Arg("bool", "False"), Arg("bool", "True"), Arg("str", "MyProject"), Arg("str", "")}

FctTypeArgs == {"window_picking_function", "processing_function", "unknown_function"}

RegisterNames == {"events", "plugin"}

ResolveNames == {"events", "plugin", "nothing"}

Plugins == {<<"PluginComponent", "a">>, <<"PluginComponent", "b">>}

Removable == {<<"SETS">>, WindowPickingFile}

\* What the environment writes into window_picking_function.py.
WritableFunctionFiles == {Py("user", {"window_picking_function"}, {})}

\* The events component is left alone while the project is looked at.
ProjInit ==
    /\ NoExtras
    /\ fs \in InitialTrees
    /\ components = {}
    /\ project = "none"
    /\ project_function_cache = EmptyMap
    /\ presult = NoOutcome
    /\ disk = EmptyMap
    /\ all_events = EmptyMap
    /\ event_info_cache = EmptyMap
    /\ objects = EmptyMap
    /\ parse_calls = [k \in Stems |-> 0]
    /\ parse_failed = {}
    /\ first_rec = EmptyMap
    /\ result = Outcome("init", "", "", <<>>, "ok", <<>>, {})

ProjNext ==
    \/ \E init_project \in InitProjectArgs : Construct(init_project)
    \/ UpdateFolderStructure
    \/ \E fct_type \in FctTypeArgs : GetProjectFunction(fct_type)
    \/ \E name \in RegisterNames : \E component \in Plugins : Register(name, component)
    \/ \E name \in ResolveNames : Resolve(name)
    \/ \E path \in Removable : RemoveTree(path)
    \/ \E content \in WritableFunctionFiles : WriteFunctionFile(content)

ProjSpec == ProjInit /\ [][ProjNext]_vars

----------------------------------------------------------------------------
\* get() entered by several threads. Nothing in get() holds a lock, so the
\* threads interleave between its statements: the lookup in all_events, the
\* test of the cache, the call of the extraction function, the assignment to
\* the cache, and the return.

\* The dictionary thread t builds for a name.
ThreadLoc(t, name) == <<t, name>>

SetThread(t, locals) == threads' = [threads EXCEPT ![t] = locals]

\* Thread t enters get(name): `if event_name not in self.all_events: raise`
ThreadCall(t, name) ==
    /\ threads[t].pc = "idle"
    /\ SetThread(t, IF IsKnown(all_events, name)
                    THEN [Idle EXCEPT !.pc = "test", !.name = name]
                    ELSE [Idle EXCEPT !.pc = "raised", !.name = name,
                                      !.status = NotKnownOutcome(Begin, name).status])
    /\ UNCHANGED <<events_vars, project_vars, reference_stations>>

\* `if event_name not in self.__event_info_cache:`
ThreadTest(t) ==
    /\ threads[t].pc = "test"
    /\ SetThread(t, [threads[t] EXCEPT
                        !.pc = IF IsCached(Begin, threads[t].name) THEN "return" ELSE "parse"])
    /\ UNCHANGED <<events_vars, project_vars, reference_stations>>

\* `values = dict(zip(self.index_values, self._extract_index_values_quakeml(...)))`
\* and the conversion of the origin time.
ThreadParse(t) ==
    /\ threads[t].pc = "parse"
    /\ LET name == threads[t].name
           x == ExtractIndexValuesQuakeml(disk, all_events[name])
       IN  /\ parse_calls' = [parse_calls EXCEPT ![name] = @ + 1]
           /\ parse_failed' = IF x.ok THEN parse_failed ELSE parse_failed \cup {name}
           /\ SetThread(t, IF x.ok
                           THEN [threads[t] EXCEPT !.pc = "store",
                                                   !.values = <<BuildValues(x.values)>>]
                           ELSE [threads[t] EXCEPT !.pc = "raised", !.status = x.error])
    /\ UNCHANGED <<disk, all_events, event_info_cache, objects, first_rec, result>>
    /\ UNCHANGED <<project_vars, reference_stations>>

\* `self.__event_info_cache[event_name] = values`
ThreadStore(t) ==
    /\ threads[t].pc = "store"
    /\ objects' = Put(objects, ThreadLoc(t, threads[t].name), threads[t].values[1])
    /\ event_info_cache' = Put(event_info_cache, threads[t].name,
                               ThreadLoc(t, threads[t].name))
    /\ SetThread(t, [threads[t] EXCEPT !.pc = "return"])
    /\ UNCHANGED <<disk, all_events, parse_calls, parse_failed, first_rec, result>>
    /\ UNCHANGED <<project_vars, reference_stations>>

\* `return self.__event_info_cache[event_name]`
ThreadReturn(t) ==
    /\ threads[t].pc = "return"
    /\ SetThread(t, [threads[t] EXCEPT !.pc = "done",
                                       !.ret = <<event_info_cache[threads[t].name]>>])
    /\ UNCHANGED <<events_vars, project_vars, reference_stations>>

ConcNext ==
    \/ \E t \in Threads : \E name \in Stems \cup {MissingName} : ThreadCall(t, name)
    \/ \E t \in Threads : ThreadTest(t)
    \/ \E t \in Threads : ThreadParse(t)
    \/ \E t \in Threads : ThreadStore(t)
    \/ \E t \in Threads : ThreadReturn(t)

\* A component as constructed, and then the threads.
ConcSpec == Init /\ [][ConcNext]_vars

----------------------------------------------------------------------------
\* A loaded project with its two events components: "events" on
\* paths["data"]["earthquakes"] and "reference_stations" on
\* paths["data"]["correlations"]. Each is an object of its own, with its own
\* all_events and its own __event_info_cache.

\* self.paths["data"]["correlations"], the folder of the second component.
CorrelationsFolder == "DATA/CORRELATIONS"

SiblingPath(stem) == Join(CorrelationsFolder, [stem |-> stem, ext |-> "h5"])

\* One call on the second component, on the fields of that object.
SiblingBegin ==
    [cache  |-> reference_stations.cache,
     objs   |-> Live(reference_stations.cache, reference_stations.objs),
     calls  |-> [k \in Stems |-> 0],
     failed |-> {},
     first  |-> EmptyMap,
     status |-> "ok",
     ret    |-> <<>>,
     parsed |-> {}]

\* SiblingCommit as it would be if __event_info_cache were an attribute of
\* the class, one dictionary for all the objects.
SiblingCommit_ClassAttribute(m, events, outcome) ==
    /\ reference_stations' =
           [all_events |-> events, cache |-> m.cache, objs |-> m.objs, last |-> outcome]
    /\ event_info_cache' = m.cache
    /\ objects' = m.objs
    /\ UNCHANGED <<disk, all_events, parse_calls, parse_failed, first_rec, result>>
    /\ UNCHANGED <<project_vars, threads>>

\* Writes m back to the second component: `self.` is that object.
SiblingCommit(m, events, outcome) ==
    /\ reference_stations' =
           [all_events |-> events, cache |-> m.cache, objs |-> m.objs, last |-> outcome]
    /\ UNCHANGED <<events_vars, project_vars, threads>>

\* fill_all_events() of the second component
SiblingFillAllEvents ==
    SiblingCommit(SiblingBegin,
                  FillFrom(reference_stations.all_events, Glob(disk, CorrelationsFolder, "h5")),
                  SiblingOutcome("fill_all_events", "", "ok", <<>>))

\* get(event_name) of the second component
SiblingGet(name) ==
    LET m == GetOn(SiblingBegin, reference_stations.all_events, disk, name)
    IN  SiblingCommit(m, reference_stations.all_events,
                      SiblingOutcome("get", name, m.status,
                                     IF m.status = "ok" THEN m.ret ELSE <<>>))

\* list() of the second component
SiblingList ==
    \E files \in Orders(Glob(disk, CorrelationsFolder, "h5")) :
        LET m == UpdateCacheFrom(SiblingBegin, reference_stations.all_events, disk, files, 1)
        IN  SiblingCommit(m, reference_stations.all_events,
                          SiblingOutcome("list", "", m.status,
                                         IF m.status = "ok" THEN Sorted(DOMAIN m.cache)
                                         ELSE <<>>))

\* get_all_events() of the second component; the copy goes to the caller.
SiblingGetAllEvents ==
    \E files \in Orders(Glob(disk, CorrelationsFolder, "h5")) :
        LET m == UpdateCacheFrom(SiblingBegin, reference_stations.all_events, disk, files, 1)
        IN  SiblingCommit(m, reference_stations.all_events,
                          SiblingOutcome("get_all_events", "", m.status,
                                         IF m.status = "ok" THEN Sorted(DOMAIN m.cache)
                                         ELSE <<>>))

\* NewEvents as it would be if the constructor did not scan its folder.
NewEvents_Unscanned(d, dir) == EmptyMap

\* `self.all_events = {}` and `self.fill_all_events()` of a component
\* constructed on the folder dir.
NewEvents(d, dir) == FillFrom(EmptyMap, Glob(d, dir, "h5"))

\* The construction ends: what it did to the files and the registry stays,
\* and the two events components __setup_components constructed have each
\* filled their all_events from their folder.
LoadCommit(st, init_project) ==
    /\ fs' = st.fs
    /\ components' = st.components
    /\ project_function_cache' = st.cache
    /\ presult' = POutcome("construct", init_project, st)
    /\ project' = IF Ok(st) THEN "loaded" ELSE "none"
    /\ all_events' = IF Bound(st.components, "events")
                     THEN NewEvents(disk, folder)
                     ELSE all_events
    /\ reference_stations' =
           IF Bound(st.components, "reference_stations")
           THEN [NewSibling EXCEPT !.all_events = NewEvents(disk, CorrelationsFolder)]
           ELSE reference_stations
    /\ UNCHANGED <<disk, event_info_cache, objects, parse_calls, parse_failed,
                   first_rec, result, threads>>

\* Project(project_root_path), where no project object exists yet.
LoadProject(init_project) ==
    /\ project = "none"
    /\ LoadCommit(ConstructOn(PBegin, init_project), init_project)

\* The event the environment adds to a data folder after the project is loaded.
LateStem == EventNames[Len(EventNames)]

\* A project root with a configuration file, one event file in each of the
\* two data folders, and no project object yet.
SysInit ==
    /\ NoExtras
    /\ fs = RootWith(<<UserConfig>>, <<>>, TRUE, <<>>)
    /\ components = {}
    /\ project = "none"
    /\ project_function_cache = EmptyMap
    /\ presult = NoOutcome
    /\ disk = MapOf({<<Join(folder, [stem |-> EventNames[1], ext |-> "h5"]),
                       [events |-> <<EventIceland>>]>>,
                     <<SiblingPath(EventNames[1]), [events |-> <<EventTurkey>>]>>})
    /\ all_events = EmptyMap
    /\ event_info_cache = EmptyMap
    /\ objects = EmptyMap
    /\ parse_calls = [k \in Stems |-> 0]
    /\ parse_failed = {}
    /\ first_rec = EmptyMap
    /\ result = Outcome("init", "", "", <<>>, "ok", <<>>, {})

Loaded == project = "loaded"

SysNext ==
    \/ LoadProject(Arg("bool", "False"))
    \/ Loaded /\ \E p \in {Join(folder, [stem |-> LateStem, ext |-> "h5"]), SiblingPath(LateStem)} :
                    WriteFile(p, [events |-> <<EventTurkey>>])
    \/ Loaded /\ FillAllEvents
    \/ Loaded /\ Count
    \/ Loaded /\ \E k \in Stems : HasEventCall(KeyArg(k))
    \/ Loaded /\ \E k \in Stems : GetCall(KeyArg(k))
    \/ Loaded /\ List
    \/ Loaded /\ GetAllEvents
    \/ Loaded /\ SiblingFillAllEvents
    \/ Loaded /\ \E k \in Stems : SiblingGet(k)
    \/ Loaded /\ SiblingList
    \/ Loaded /\ SiblingGetAllEvents
    \/ GetProjectFunction("window_picking_function")
    \/ UpdateFolderStructure

SysSpec == SysInit /\ [][SysNext]_vars

----------------------------------------------------------------------------
\* Loading a project on roots whose data folders exist or do not, with
\* whatever event files the folders that exist hold.

\* paths["data"]["earthquakes"] and paths["data"]["correlations"]
EarthquakesDir == <<"DATA", "EARTHQUAKES">>

CorrelationsDir == <<"DATA", "CORRELATIONS">>

\* The tree with the given directories, and those above them, added.
WithDirs(tree, dirs) ==
    [q \in DOMAIN tree \cup UNION {Prefixes(d) : d \in dirs} |->
        IF q \in DOMAIN tree THEN tree[q] ELSE Dir]

\* The event files the given folders may hold: any of them, with any content.
EventFiles(ps) == UNION {[S -> Contents] : S \in SUBSET ps}

SiblingPaths == {SiblingPath(s) : s \in Stems}

\* A root with a configuration file and both data folders, one with only
\* the earthquakes folder, one with neither, and no root at all; files only
\* in folders that exist.
LoadInit ==
    /\ NoExtras
    /\ \/ /\ fs = WithDirs(RootWith(<<UserConfig>>, <<>>, TRUE, <<>>),
                           {EarthquakesDir, CorrelationsDir})
          /\ disk \in EventFiles(H5Paths \cup SiblingPaths)
       \/ /\ fs = WithDirs(RootWith(<<UserConfig>>, <<>>, TRUE, <<>>), {EarthquakesDir})
          /\ disk \in EventFiles(H5Paths)
       \/ /\ fs \in {RootWith(<<UserConfig>>, <<>>, TRUE, <<>>), EmptyMap}
          /\ disk = EmptyMap
    /\ components = {}
    /\ project = "none"
    /\ project_function_cache = EmptyMap
    /\ presult = NoOutcome
    /\ all_events = EmptyMap
    /\ event_info_cache = EmptyMap
    /\ objects = EmptyMap
    /\ parse_calls = [k \in Stems |-> 0]
    /\ parse_failed = {}
    /\ first_rec = EmptyMap
    /\ result = Outcome("init", "", "", <<>>, "ok", <<>>, {})

LoadNext ==
    \/ \E init_project \in {Arg("bool", "False"), Arg("bool", "True")} :
          LoadProject(init_project)
    \/ Loaded /\ Count
    \/ Loaded /\ \E k \in Stems : HasEventCall(KeyArg(k))

LoadSpec == LoadInit /\ [][LoadNext]_vars

----------------------------------------------------------------------------
\* Properties of the keyed metadata cache.

\* The names of the event files the folder holds now.
NamesOnDisk == {EventNameOf(p) : p \in Glob(disk, folder, "h5")}

\* Every event file the folder holds now can be parsed.
AllParsable == \A p \in Glob(disk, folder, "h5") : ExtractIndexValuesQuakeml(disk, p).ok

\* The exceptions the extraction function raises.
ExtractionErrors == {"OSError", "IndexError"}

\* C1: memoization. For every name for which get() has succeeded and whose
\* extraction has never raised, the extraction function has been invoked
\* exactly once, however many calls were made.
C1_ParsedExactlyOnce ==
    \A k \in DOMAIN first_rec : k \notin parse_failed => parse_calls[k] = 1

\* A get() that succeeded from the cache, for a name parsed once.
C1_Witness ==
    /\ result.op = "get" /\ result.status = "ok" /\ result.kind = "key"
    /\ result.parsed = {}
    /\ result.arg \notin parse_failed
    /\ parse_calls[result.arg] = 1

\* C2: after fill_all_events() the known names are exactly the names of the
\* event files the folder holds, so the name of a removed file is not known.
C2_ScanReplacesWholesale ==
    result.op = "fill_all_events" => DOMAIN all_events = NamesOnDisk

\* C3: list() performs a scan first: with every file of the folder parsable,
\* it succeeds, its result includes the name of every file, files added after
\* construction too, and the cache holds a record for every file.
C3_ListScansFirst ==
    (result.op = "list" /\ AllParsable) =>
        /\ result.status = "ok"
        /\ \A n \in NamesOnDisk :
              /\ \E i \in 1..Len(result.value) : result.value[i] = n
              /\ n \in DOMAIN event_info_cache

\* C4: list() returns exactly the ascending list of the names of the event
\* files the folder holds at the time of the call.
C4_ListEqualsSortedScan ==
    (result.op = "list" /\ result.status = "ok") => result.value = Sorted(NamesOnDisk)

\* C5: get() with an argument that resolves to a name absent from all_events
\* raises LASIFNotFoundError, invokes no extraction and leaves the map, the
\* cache and its records as they were.
C5_GetUnknownFails ==
    [][(result'.op = "get" /\ result'.src # <<"nameless">>
        /\ ~IsKnown(all_events, result'.arg)) =>
            /\ result'.status = "LASIFNotFoundError"
            /\ result'.parsed = {}
            /\ parse_calls' = parse_calls
            /\ all_events' = all_events
            /\ event_info_cache' = event_info_cache
            /\ CacheView' = CacheView]_vars

\* A get() that raised LASIFNotFoundError while the cache held a record.
C5_Witness ==
    /\ result.op = "get" /\ result.status = "LASIFNotFoundError"
    /\ DOMAIN event_info_cache # {}

\* C6: get() with a record get() returned (a record of the cache) succeeds,
\* returns that very record, the one get() of its name returns, and invokes no
\* extraction.
C6_GetOfRecordIsSameRecord ==
    \A k \in DOMAIN event_info_cache :
        (result.op = "get" /\ result.kind = "record" /\ result.src = event_info_cache[k]) =>
            /\ result.status = "ok"
            /\ result.arg = k
            /\ result.value = event_info_cache[k]
            /\ result.parsed = {}

\* A get() that was passed a record of the cache and succeeded.
C6_Witness ==
    /\ result.op = "get" /\ result.kind = "record" /\ result.status = "ok"
    /\ result.src \in {event_info_cache[k] : k \in DOMAIN event_info_cache}

\* C7: fill_all_events() makes the name of every event file of the folder known
\* and leaves the record cache untouched; a get() of a cached name returns the
\* cached record without invoking the extraction function.
C7_RescanKeepsCache ==
    [][/\ result'.op = "fill_all_events" =>
            /\ \A p \in Glob(disk, folder, "h5") : IsKnown(all_events', EventNameOf(p))
            /\ event_info_cache' = event_info_cache
            /\ CacheView' = CacheView
            /\ parse_calls' = parse_calls
       /\ (result'.op = "get" /\ result'.arg \in DOMAIN event_info_cache) =>
            /\ result'.status = "ok"
            /\ result'.parsed = {}
            /\ result'.value = event_info_cache[result'.arg]
            /\ objects'[result'.value] = objects[result'.value]]_vars

\* A rescan that added a name while the cache held a record.
C7_Witness ==
    /\ result.op = "fill_all_events"
    /\ result.value # {}
    /\ DOMAIN event_info_cache # {}

\* C8: changing the mapping get_all_events() returned, or a record in it,
\* leaves the record cache and its records as they were.
C8_GetAllIsDeepCopy ==
    [][result'.op = "mutate" =>
            /\ event_info_cache' = event_info_cache
            /\ CacheView' = CacheView]_vars

\* The caller changed a record of the returned mapping and removed an entry.
C8_Witness ==
    /\ result.op = "mutate"
    /\ \E l \in DOMAIN objects : l[1] = "copy" /\ objects[l]["latitude"] = 0
    /\ DOMAIN result.value.items # DOMAIN event_info_cache

\* C9: every successful get() of a name returns a record equal to the one the
\* first successful get() of that name returned, and the cache keeps it.
C9_RecordStable ==
    /\ (result.op = "get" /\ result.status = "ok") =>
            objects[result.value] = first_rec[result.arg]
    /\ \A k \in DOMAIN first_rec :
            k \in DOMAIN event_info_cache /\ CacheView[k] = first_rec[k]

\* A get() that succeeded from the cache although the file now holds other
\* content than the record was parsed from.
C9_Witness ==
    /\ result.op = "get" /\ result.status = "ok"
    /\ all_events[result.arg] \in DOMAIN disk
    /\ LET x == ExtractIndexValuesQuakeml(disk, all_events[result.arg])
       IN  x.ok /\ BuildValues(x.values) # objects[result.value]

\* C10: a get() whose extraction raises propagates the exception, leaves the
\* cache without an entry for the name and with its other records unchanged;
\* a later get() of a name that failed and is not cached invokes the
\* extraction function again.
C10_FailureNotCached ==
    [][/\ (result'.op = "get" /\ result'.parsed # {} /\ result'.status # "ok") =>
            /\ result'.status \in ExtractionErrors
            /\ result'.arg \notin DOMAIN event_info_cache'
            /\ event_info_cache' = event_info_cache
            /\ CacheView' = CacheView
       /\ (result'.op = "get" /\ result'.arg \in parse_failed
           /\ result'.arg \notin DOMAIN event_info_cache) =>
            /\ result'.parsed = {result'.arg}
            /\ parse_calls'[result'.arg] = parse_calls[result'.arg] + 1]_vars

\* A get() whose extraction raised for the second time, beside a cached record.
C10_Witness ==
    /\ result.op = "get" /\ result.status \in ExtractionErrors
    /\ parse_calls[result.arg] >= 2
    /\ result.arg \notin DOMAIN event_info_cache
    /\ DOMAIN event_info_cache # {}


\* C11: count() returns the number of names in all_events, and no get(),
\* has_event() or get_all_events() changes what count() returns, whatever
\* part of the names has been parsed.
C11_CountIndependentOfParsing ==
    [][/\ result'.op = "count" => result'.value = Cardinality(DOMAIN all_events)
       /\ result'.op \in {"get", "has_event", "get_all_events"} =>
            CountValue(all_events', event_info_cache')
                = CountValue(all_events, event_info_cache)]_vars

\* count() returned 2 while one of the two names was parsed.
C11_Witness ==
    /\ result.op = "count" /\ result.value = 2
    /\ Cardinality(DOMAIN event_info_cache) = 1

\* C12: has_event() of a name or of a dictionary with an event_name succeeds
\* and tells whether that name is in all_events: true for every event file the
\* folder held at the scan just made, true for a record get() returned, false
\* for an unknown name; it parses nothing and leaves the map and the cache as
\* they were.
C12_HasIsMembership ==
    [][result'.op = "has_event" /\ result'.src # <<"nameless">> =>
            /\ result'.status = "ok"
            /\ result'.value = (result'.arg \in DOMAIN all_events)
            /\ (result.op \in {"init", "fill_all_events"} /\ result'.arg \in NamesOnDisk)
                    => result'.value = TRUE
            /\ \A k \in DOMAIN event_info_cache :
                    result'.src = event_info_cache[k] => result'.arg = k /\ result'.value = TRUE
            /\ result'.arg = MissingName => result'.value = FALSE
            /\ result'.parsed = {}
            /\ parse_calls' = parse_calls
            /\ all_events' = all_events
            /\ event_info_cache' = event_info_cache
            /\ CacheView' = CacheView]_vars

\* has_event() was passed a record of the cache and returned True.
C12_Witness ==
    /\ result.op = "has_event" /\ result.kind = "record" /\ result.status = "ok"
    /\ result.src \in {event_info_cache[k] : k \in DOMAIN event_info_cache}
    /\ result.value = TRUE


\* C29: fill_all_events() right after a scan (the one of __init__ or an
\* earlier fill_all_events()), the folder unchanged in between, leaves the
\* map of names as it is, invokes no extraction and leaves the cache and its
\* records as they are.
C29_ScanIdempotent ==
    [][(result.op \in {"init", "fill_all_events"} /\ result'.op = "fill_all_events") =>
            /\ disk' = disk
            /\ all_events' = all_events
            /\ result'.parsed = {}
            /\ parse_calls' = parse_calls
            /\ event_info_cache' = event_info_cache
            /\ CacheView' = CacheView]_vars

C29_Witness ==
    /\ result.op = "fill_all_events" /\ result.value = {}
    /\ DOMAIN all_events = NamesOnDisk /\ DOMAIN all_events = Stems
    /\ event_info_cache # EmptyMap

\* C30: every record of the cache has exactly the fields of index_values, its
\* event_name is the name it is stored under, and its filename is the path
\* all_events holds for that name.
C30_RecordsWellFormed ==
    \A k \in DOMAIN event_info_cache :
        /\ DOMAIN objects[event_info_cache[k]] = {index_values[i] : i \in 1..Len(index_values)}
        /\ objects[event_info_cache[k]]["event_name"] = k
        /\ k \in DOMAIN all_events
        /\ objects[event_info_cache[k]]["filename"] = all_events[k]

C30_Witness ==
    /\ DOMAIN event_info_cache = Stems
    /\ \A k \in Stems : objects[event_info_cache[k]]["filename"] = all_events[k]
    /\ result.op = "get" /\ result.parsed # {}

\* C28: when two threads are in get() for the same name, a name that is
\* known, not cached when they enter and whose file can be parsed, the
\* extraction function is invoked at most once for the name, and the two
\* calls return the same record.
C28_ConcurrentGetParsesOnce ==
    \A t, u \in Threads :
        (t # u /\ threads[t].name = threads[u].name
         /\ threads[t].pc \notin {"idle", "raised"} /\ threads[u].pc \notin {"idle", "raised"}) =>
            /\ parse_calls[threads[t].name] <= 1
            /\ (threads[t].pc = "done" /\ threads[u].pc = "done") =>
                    threads[t].ret = threads[u].ret

\* C31: in every state the names of the record cache are names of
\* all_events: no record is cached for a name the component does not know,
\* whatever files appear and disappear and whatever is called.
C31_CacheWithinMap ==
    \A k \in DOMAIN event_info_cache : IsKnown(all_events, k)

\* A record is cached for a name whose file is gone, and a scan has run
\* since: the name is still known.
C31_Witness ==
    /\ result.op = "fill_all_events"
    /\ \E k \in DOMAIN event_info_cache : all_events[k] \notin DOMAIN disk

\* C32: after a list() that raised nothing, the number of names it
\* returned equals count(), and the names get_all_events() holds are the
\* names list() returned, also when files were added to or removed from the
\* folder since the component was constructed.
C32_ListAgreesWithCount ==
    (result.op = "list" /\ result.status = "ok") =>
        /\ Len(result.value) = CountValue(all_events, event_info_cache)
        /\ {result.value[i] : i \in 1..Len(result.value)} =
               DOMAIN DeepCopy(event_info_cache, objects).items

\* C33: after a get_all_events() that raised nothing, the mapping it
\* returned holds, for every name the component knows, a record equal to the
\* one get() returns for the name, and no known name has been parsed more
\* than once in total.
C33_GetAllCoversKnown ==
    (result.op = "get_all_events" /\ result.status = "ok") =>
        /\ \A k \in DOMAIN all_events :
              /\ k \in DOMAIN result.value.items
              /\ objects[result.value.items[k]] =
                     objects[GetOn(Begin, all_events, disk, k).ret]
        /\ \A k \in DOMAIN all_events : parse_calls[k] <= 1

----------------------------------------------------------------------------
\* Properties of the registry and of loading a project.

\* C13: registering a component under a name the registry already binds
\* raises DuplicateNameError and leaves the registry as it was, the name
\* still bound to its first component; resolving a name that is not bound
\* raises UnknownComponentError.
C13_DuplicateAndUnknownFail ==
    [][/\ (presult'.op = "register" /\ Bound(components, presult'.arg.text)) =>
            /\ presult'.status = "DuplicateNameError"
            /\ components' = components
            /\ Target(components', presult'.arg.text) = Target(components, presult'.arg.text)
       /\ (presult'.op = "resolve" /\ ~Bound(components, presult'.arg.text)) =>
            /\ presult'.status = "UnknownComponentError"
            /\ presult'.value = <<>>
            /\ components' = components]_vars

C13_Witness ==
    /\ presult.op = "register" /\ presult.arg.text = "plugin"
    /\ presult.status = "DuplicateNameError"
    /\ Bound(components, "plugin")

\* C14: the registry binds every name to one component, and a register or a
\* resolve keeps every binding there is; resolve returns the component the
\* name is bound to.
C14_BindingImmutable ==
    /\ [](\A a, b \in components : a[1] = b[1] => a = b)
    /\ [][presult'.op \in {"register", "resolve"} =>
            /\ \A b \in components : b \in components'
            /\ (presult'.op = "resolve" /\ Bound(components, presult'.arg.text)) =>
                    presult'.value = <<Target(components, presult'.arg.text)>>]_vars

C14_Witness ==
    /\ presult.op = "resolve" /\ presult.arg.text = "plugin" /\ presult.status = "ok"
    /\ presult.value = <<Target(components, "plugin")>>
    /\ Cardinality(components) = Len(ComponentTable) + 2

\* C15: constructing a project without init_project on a root that has no
\* configuration file raises LASIFError; the call makes no directory, writes
\* no file, and registers no component.
C15_LoadWithoutConfigFails ==
    [][(presult'.op = "construct" /\ ~Truthy(presult'.arg) /\ ~Exists(fs, ConfigPath)) =>
            /\ presult'.status = "LASIFError"
            /\ presult'.made = <<>>
            /\ presult'.wrote = {}
            /\ fs' = fs
            /\ components' = {}
            /\ project' = "none"]_vars

C15_Witness ==
    /\ presult.op = "construct" /\ ~Truthy(presult.arg)
    /\ presult.status = "LASIFError"
    /\ IsDir(fs, RootPath) /\ ~Exists(fs, ConfigPath)

\* C16: constructing a project with init_project on a root that already has
\* a configuration file leaves that file as it is, and goes on as a load
\* without init_project would.
C16_InitKeepsExistingConfig ==
    [][(presult'.op = "construct" /\ Truthy(presult'.arg) /\ IsFile(fs, ConfigPath)) =>
            /\ fs'[ConfigPath] = fs[ConfigPath]
            /\ ConfigPath \notin presult'.wrote
            /\ presult'.status = ConstructOn(PBegin, Arg("bool", "False")).status]_vars

\* C17: the configuration file a construction writes carries the name
\* "LASIFProject" when init_project gave no name, and the given name when
\* init_project is a string.
C17_DefaultOrGivenName ==
    (presult.op = "construct" /\ ConfigPath \in presult.wrote) =>
        /\ IsFile(fs, ConfigPath)
        /\ fs[ConfigPath][2].name = IF presult.arg.type = "str" THEN presult.arg.text
                                    ELSE "LASIFProject"

\* C18: after a construction that raised nothing, every leaf of paths whose
\* name does not contain "file" is a directory on disk, the nested leaves and
\* the leaves below other leaves too; a leaf whose name contains "file" is
\* never a directory.
C18_LayoutIsDirectories ==
    /\ (presult.op = "construct" /\ presult.status = "ok") =>
            \A leaf \in Leaves(paths) :
                ~StrIn("file", leaf.name) => IsDir(fs, leaf.path)
    /\ \A leaf \in Leaves(paths) : StrIn("file", leaf.name) => ~IsDir(fs, leaf.path)

\* C19: a run of __update_folder_structure right after a run that raised
\* nothing raises nothing, calls os.makedirs() not once and leaves the file
\* tree as it is; and no run removes or changes anything that exists.
C19_LayoutIdempotent ==
    [][presult'.op = "update_folder_structure" =>
            /\ (presult.op = "update_folder_structure" /\ presult.status = "ok") =>
                    /\ presult'.status = "ok"
                    /\ presult'.made = <<>>
                    /\ fs' = fs
            /\ \A q \in DOMAIN fs : q \in DOMAIN fs' /\ fs'[q] = fs[q]]_vars

C19_Witness ==
    /\ presult.op = "update_folder_structure" /\ presult.again
    /\ presult.status = "ok" /\ presult.made = <<>>
    /\ \A leaf \in Leaves(paths) : ~StrIn("file", leaf.name) => IsDir(fs, leaf.path)

\* C20: get_project_function() with a type that is none of the types of
\* fct_type_map raises LASIFNotFoundError and leaves the function cache as
\* it was.
C20_UnknownKindNotFound ==
    [][(presult'.op = "get_project_function" /\ presult'.arg.text \notin FctTypes) =>
            /\ presult'.status = "LASIFNotFoundError"
            /\ project_function_cache' = project_function_cache]_vars


\* The file get_project_function reads a function of a type from.
FileOf(fct_type) == Append(FunctionsPath, fct_type_map[fct_type])

\* This step's call of get_project_function(fct_type) fails as a missing file,
\* a missing name and a name that is no function are said to fail, and adds
\* nothing to the function cache.
FailsAsSaid(fct_type) ==
    /\ ~Exists(fs, FileOf(fct_type)) =>
            /\ presult'.status = "LASIFNotFoundError"
            /\ project_function_cache' = project_function_cache
    /\ (IsFile(fs, FileOf(fct_type))
        /\ fct_type \notin fs[FileOf(fct_type)][2].parts \cup fs[FileOf(fct_type)][2].vars) =>
            /\ presult'.status = "LASIFNotFoundError"
            /\ project_function_cache' = project_function_cache
    /\ (IsFile(fs, FileOf(fct_type))
        /\ fct_type \in fs[FileOf(fct_type)][2].vars \ fs[FileOf(fct_type)][2].parts) =>
            /\ presult'.status = "LASIFError"
            /\ project_function_cache' = project_function_cache

C22_CachedForSession ==
    [][/\ (presult'.op = "get_project_function"
           /\ presult'.arg.text \in DOMAIN project_function_cache) =>
                /\ presult'.status = "ok"
                /\ presult'.value = <<project_function_cache[presult'.arg.text]>>
                /\ presult'.loaded = {}
                /\ project_function_cache' = project_function_cache
       /\ presult'.op # "construct" =>
                \A t \in DOMAIN project_function_cache :
                    /\ t \in DOMAIN project_function_cache'
                    /\ project_function_cache'[t] = project_function_cache[t]]_vars

C22_Witness ==
    /\ presult.op = "get_project_function" /\ presult.arg.text = "window_picking_function"
    /\ presult.status = "ok" /\ presult.loaded = {}
    /\ ~Exists(fs, WindowPickingFile)
    /\ DOMAIN project_function_cache = {"window_picking_function", "processing_function"}

\* C23: after a construction that raised nothing the functions directory
\* holds a file for every template; a template is copied only where no file
\* of its name existed, and a warning is given if and only if a template is
\* copied while init_project is not true.
C23_TemplatesCopied ==
    [][(presult'.op = "construct" /\ presult'.status = "ok") =>
            LET templates == {TemplateNames[i] : i \in 1..Len(TemplateNames)}
                copies == {t \in templates : Append(FunctionsPath, t) \in presult'.wrote}
            IN  /\ \A t \in templates : IsFile(fs', Append(FunctionsPath, t))
                /\ \A t \in copies : ~Exists(fs, Append(FunctionsPath, t))
                /\ \A t \in templates \ copies :
                        /\ Exists(fs, Append(FunctionsPath, t))
                        /\ fs'[Append(FunctionsPath, t)] = fs[Append(FunctionsPath, t)]
                /\ (presult'.warned > 0) <=> (copies # {} /\ ~Truthy(presult'.arg))]_vars

C23_Witness ==
    /\ presult.op = "construct" /\ presult.status = "ok"
    /\ presult.warned > 0
    /\ WindowPickingFile \notin presult.wrote
    /\ Append(FunctionsPath, "process_data.py") \in presult.wrote

\* C24: constructing a project whose configuration file lacks a table that
\* _read_config_file reads raises the error of the project's own kind
\* (LASIFError), and no project comes of it.
C24_BrokenConfigFails ==
    [][(presult'.op = "construct" /\ ~Truthy(presult'.arg) /\ IsFile(fs, ConfigPath)
        /\ \E i \in 1..Len(RequiredSections) :
              RequiredSections[i] \notin fs[ConfigPath][2].parts) =>
            /\ presult'.status = "LASIFError"
            /\ project' = "none"]_vars

\* C25: after a construction that raised nothing the registry binds exactly
\* the thirteen names of the project and its components, each to a component
\* of its own, "project" was registered first, and no registration of a
\* construction meets a name that is already bound.
C25_RegistryAfterConstruction ==
    /\ presult.op = "construct" => presult.status # "DuplicateNameError"
    /\ (presult.op = "construct" /\ presult.status = "ok") =>
            /\ {b[1] : b \in components} =
                    {"project", "events", "waveforms", "reference_stations", "correlations",
                     "weights", "iterations", "query", "visualizations", "actions",
                     "validator", "wins_and_adj_sources", "downloads"}
            /\ \A a, b \in components : (a[1] = b[1] \/ a[2] = b[2]) => a = b
            /\ presult.bound # <<>> /\ Head(presult.bound) = "project"
            /\ {presult.bound[i] : i \in 1..Len(presult.bound)} = {b[1] : b \in components}
            /\ Len(presult.bound) = Cardinality(components)

C25_Witness ==
    /\ presult.op = "construct" /\ presult.status = "ok" /\ Truthy(presult.arg)
    /\ Cardinality(components) = Len(ComponentTable) + 1
    /\ Target(components, "events") # Target(components, "reference_stations")


\* C34: a construction that fails while reading the configuration file, the
\* file being there, has created no directory of the layout and has copied
\* no function template.
C34_FailedLoadLeavesNothing ==
    (presult.op = "construct" /\ presult.status \in {"KeyError", "TomlDecodeError"}) =>
        /\ presult.made = <<>>
        /\ \A i \in 1..Len(TemplateNames) :
              Append(FunctionsPath, TemplateNames[i]) \notin presult.wrote

\* The files the functions directory holds.
FunctionFiles(tree) ==
    {q \in DOMAIN tree : Len(q) = Len(FunctionsPath) + 1 /\ FunctionsPath \in Prefixes(q)
                         /\ IsFile(tree, q)}

\* C35: a construction, loading or initialising, leaves every file that the
\* functions directory held before it with the content it had, however many
\* constructions follow one another.
C35_FunctionFilesKept ==
    [][presult'.op = "construct" =>
            \A q \in FunctionFiles(fs) : q \in DOMAIN fs' /\ fs'[q] = fs[q]]_vars

\* A later construction has run on a functions directory that held the
\* user's own window_picking_function.py and the templates an earlier one
\* had copied; it wrote no function file and the user's file is still the
\* user's.
C35_Witness ==
    /\ presult.op = "construct" /\ presult.status = "ok"
    /\ FunctionFiles(fs) \cap presult.wrote = {}
    /\ IsFile(fs, WindowPickingFile)
    /\ fs[WindowPickingFile][2].name = "user"
    /\ \E q \in FunctionFiles(fs) : fs[q][2].name = "template"

----------------------------------------------------------------------------
\* Properties of a loaded project and its two events components.

\* The records of the second component's cache, by value.
SiblingView ==
    [k \in DOMAIN reference_stations.cache |->
        reference_stations.objs[reference_stations.cache[k]]]

\* C26: once the construction of the project has completed, no call of
\* fill_all_events, count, has_event, get, list or get_all_events on either
\* events component, of get_project_function or of
\* __update_folder_structure adds, removes or rebinds a name of the registry.
C26_RegistryReadOnly ==
    [][Loaded => components' = components]_vars

\* A function has been loaded and both events components have parsed a file,
\* and the registry holds the thirteen bindings of the construction.
C26_Witness ==
    /\ Loaded
    /\ presult.op = "get_project_function" /\ presult.status = "ok" /\ presult.loaded # {}
    /\ "window_picking_function" \in DOMAIN project_function_cache
    /\ DOMAIN event_info_cache # {}
    /\ DOMAIN reference_stations.cache # {}
    /\ Cardinality(components) = Len(ComponentTable) + 1
    /\ \A i \in 1..Len(ComponentTable) : Bound(components, ComponentTable[i][1])
    /\ ~Bound(components, "window_picking_function")

\* C27: the two events components of a loaded project keep separate
\* all_events and separate record caches: a call of fill_all_events, get,
\* list or get_all_events on reference_stations leaves count(), has_event()
\* and the cached records of events as they were, and a call on events
\* leaves those of reference_stations as they were.
C27_CacheOwnership ==
    [][Loaded =>
        /\ (reference_stations' # reference_stations) =>
              /\ CountValue(all_events', event_info_cache') =
                     CountValue(all_events, event_info_cache)
              /\ \A k \in Stems \cup {MissingName} :
                     IsKnown(all_events', k) = IsKnown(all_events, k)
              /\ all_events' = all_events
              /\ event_info_cache' = event_info_cache
              /\ CacheView' = CacheView
        /\ (result' # result) =>
              /\ reference_stations'.all_events = reference_stations.all_events
              /\ reference_stations'.cache = reference_stations.cache
              /\ SiblingView' = SiblingView]_vars

\* Both components have parsed the file of the same name in their own folder
\* and hold different records for it; events has rescanned and knows the
\* late file of its folder, reference_stations has not and knows only the
\* first.
C27_Witness ==
    /\ Loaded
    /\ EventNames[1] \in DOMAIN event_info_cache
    /\ EventNames[1] \in DOMAIN reference_stations.cache
    /\ CacheView[EventNames[1]] # SiblingView[EventNames[1]]
    /\ CacheView[EventNames[1]]["filename"].dir = folder
    /\ SiblingView[EventNames[1]]["filename"].dir = CorrelationsFolder
    /\ DOMAIN all_events = Stems
    /\ DOMAIN reference_stations.all_events = {EventNames[1]}
    /\ SiblingPath(LateStem) \in DOMAIN disk


\* C36: right after a construction that raised nothing, count() of each
\* events component is the number of event files its folder held when the
\* project was loaded and has_event() is true for each of them; and on a
\* root whose data folders do not exist yet (with a configuration file, or
\* being initialised) the construction raises nothing and both counts are 0.
C36_InitialScan ==
    [][(project = "none" /\ presult'.op = "construct") =>
          /\ presult'.status = "ok" =>
                /\ CountValue(all_events', event_info_cache') =
                       Cardinality(Glob(disk, folder, "h5"))
                /\ \A f \in Glob(disk, folder, "h5") : IsKnown(all_events', EventNameOf(f))
                /\ CountValue(reference_stations'.all_events, reference_stations'.cache) =
                       Cardinality(Glob(disk, CorrelationsFolder, "h5"))
                /\ \A f \in Glob(disk, CorrelationsFolder, "h5") :
                       IsKnown(reference_stations'.all_events, EventNameOf(f))
          /\ (~Exists(fs, EarthquakesDir) /\ ~Exists(fs, CorrelationsDir)
              /\ (Truthy(presult'.arg) \/ fs = RootWith(<<UserConfig>>, <<>>, TRUE, <<>>))) =>
                /\ presult'.status = "ok"
                /\ CountValue(all_events', event_info_cache') = 0
                /\ CountValue(reference_stations'.all_events, reference_stations'.cache) = 0]_vars

\* A project has just been loaded on a root whose earthquakes folder held
\* two event files and whose correlations folder did not exist: events
\* counts two, reference_stations none, and the load made the missing folder.
C36_Witness ==
    /\ Loaded /\ presult.op = "construct" /\ result.op = "init"
    /\ CountValue(all_events, event_info_cache) = Cardinality(Stems)
    /\ \A k \in Stems : IsKnown(all_events, k)
    /\ CountValue(reference_stations.all_events, reference_stations.cache) = 0
    /\ \E i \in 1..Len(presult.made) : presult.made[i] = CorrelationsDir
    /\ \A i \in 1..Len(presult.made) : presult.made[i] # EarthquakesDir

====
